---- MODULE Spec2Model ----
(***************************************************************************)
(* Model of app.py, the video splitter: the duration prober, the two       *)
(* availability checks, the stream-copy (ffmpeg) splitter, the re-encode   *)
(* (moviepy) splitter with its three-level fallback ladder, and main()     *)
(* with the top-level exit handler.                                        *)
(*                                                                         *)
(* One run of the program is one behaviour.  The environment (does the     *)
(* input exist, how long is the media, which backends are installed) is    *)
(* fixed in Init; the outcome of every external call (ffprobe, ffmpeg,     *)
(* VideoFileClip, write_videofile) is chosen when the call is made.        *)
(* Durations are whole seconds.                                            *)
(***************************************************************************)
EXTENDS Integers, Sequences, FiniteSets, TLC

\* Largest media duration and largest --duration argument explored.
MaxDur == 5
MaxChunk == 3

\* An optional value: None is the empty tuple, a present value x is <<x>>.
None == <<>>
Some(x) == <<x>>

\* a string-valued local that holds no method / no splitter
NoMethod == "none"

Methods == {"moviepy", "ffmpeg", "auto"}

VARIABLES
    method,          \* args.method
    chunk_duration,  \* args.duration
    inputExists,     \* os.path.exists(input_video)
    mediaDuration,   \* the duration the media really has
    ffmpegAvail,     \* C:\ffmpeg\ffmpeg.exe exists or `ffmpeg -version` succeeds
    moviepyAvail,    \* `from moviepy import VideoFileClip` succeeds
    editorAvail,     \* `from moviepy.editor import VideoFileClip` succeeds
    pc,              \* position in the program
    duration,        \* main(): result of the probe at line 249
    effMethod,       \* main(): the local `method` after resolution
    exitCode,        \* argument of sys.exit
    probes,          \* log of the ffprobe invocations: who called, what ran, what came back
    copied,          \* the short-circuit shutil.copy2 has completed
    dirCreated,      \* os.makedirs(output_dir) has been called
    files,           \* indices k such that chunk_k<ext> was written in output_dir
    splitter,        \* which split_video_* function was entered
    splitDuration,   \* the splitter's local `duration`
    num_chunks,      \* the splitter's local num_chunks (None until line 59/129 has run)
    success_count,   \* the splitter's local success_count
    i,               \* the splitter's loop variable
    ffCalls,         \* log of the ffmpeg split invocations
    attempt,         \* moviepy: rung of the ladder the current chunk is on (1..3)
    attempts,        \* log of the moviepy subclip/write attempts
    openSub,         \* number of subclip handles created and not closed
    videoOpen,       \* the VideoFileClip handle is open
    videoCloses,     \* number of video.close() calls
    runNo,           \* 1 in the first run of the program, 2 when it is run again
    prev,            \* what the first run's external calls did and what it left on disk
    interrupted      \* a KeyboardInterrupt reached the handler at line 300

env == <<method, chunk_duration, inputExists, mediaDuration,
         ffmpegAvail, moviepyAvail, editorAvail>>
mainVars == <<duration, effMethod, probes, copied>>
splitVars == <<splitter, splitDuration, num_chunks, success_count, i>>
ffVars == <<ffCalls>>
mpVars == <<attempt, attempts, openSub, videoOpen, videoCloses>>
hist == <<runNo, prev, interrupted>>
vars == <<env, hist, pc, exitCode, dirCreated, files, mainVars, splitVars, ffVars, mpVars>>

-----------------------------------------------------------------------------
(* Pure helpers *)

\* math.ceil(duration / chunk_duration) for chunk_duration > 0
Ceil(d, l) == (d + l - 1) \div l

NumChunks(d, l) == Ceil(d, l)

\* start_time = i * chunk_duration (0-based k)
StartTime(k, l) == k * l

Min(a, b) == IF a <= b THEN a ELSE b

\* variant: the end is not clipped to the duration
EndTime_NoClip(k, l, d) == (k + 1) * l

\* end_time = min((i + 1) * chunk_duration, duration)
EndTime(k, l, d) == Min((k + 1) * l, d)

\* variant: -t is given the clipped length end - start
FfmpegWindow_Clipped(k, l, d) == Min((k + 1) * l, d) - k * l

\* the value given to ffmpeg's -t option for chunk k: str(chunk_duration)
FfmpegWindow(k, l, d) == l

\* What one run of ffprobe can do: the binary is missing (subprocess.run
\* raises FileNotFoundError), it exits non-zero, it prints text float()
\* rejects, or it prints the duration.
ProbeRuns(d) ==
    { [found |-> FALSE, returncode |-> 1, numeric |-> FALSE, value |-> 0],
      [found |-> TRUE,  returncode |-> 1, numeric |-> FALSE, value |-> 0],
      [found |-> TRUE,  returncode |-> 0, numeric |-> FALSE, value |-> 0],
      [found |-> TRUE,  returncode |-> 0, numeric |-> TRUE,  value |-> d] }

\* variant: unparseable output is read as 0.0 instead of raising ValueError
get_video_duration_ffmpeg_ZeroOnGarbage(run) ==
    IF ~run.found THEN None
    ELSE IF run.returncode # 0 THEN None
    ELSE IF ~run.numeric THEN Some(0)
    ELSE Some(run.value)

\* get_video_duration_ffmpeg: every exception is caught and becomes None
get_video_duration_ffmpeg(run) ==
    IF ~run.found THEN None
    ELSE IF run.returncode # 0 THEN None
    ELSE IF ~run.numeric THEN None
    ELSE Some(run.value)

\* `duration and duration <= args.duration` : None and 0.0 are falsy
ShortCircuit(dur, l) == dur # None /\ dur[1] # 0 /\ dur[1] <= l

\* variant: the elif branch that falls back to the library is missing
AutoSelect_NoFallback(ff, mp) == IF ff THEN "ffmpeg" ELSE NoMethod

\* method resolution for --method auto; NoMethod when neither backend is there
AutoSelect(ff, mp) ==
    IF ff THEN "ffmpeg" ELSE IF mp THEN "moviepy" ELSE NoMethod

\* variant: the availability check before the dispatch is skipped
BackendAvailable_Unchecked(m, ff, mp) == TRUE

\* lines 284 and 289: check_ffmpeg_availability() / check_moviepy_availability()
\* for the method about to be dispatched
BackendAvailable(m, ff, mp) == IF m = "ffmpeg" THEN ff ELSE mp

\* variant: every return of a splitter is turned into exit code 0
ExitOf_AlwaysZero(success) == 0

\* `return 0 if success else 1`
ExitOf(success) == IF success THEN 0 ELSE 1

\* variant: the splitter reports success as soon as one chunk was written
SplitSuccess_Any(sc, n) == sc > 0

\* `return success_count == num_chunks`
SplitSuccess(sc, n) == sc = n

\* variant: the probe is made for every method
NeedsProbe_Always(m) == TRUE

\* line 248: `args.method == "ffmpeg" or args.method == "auto"`
NeedsProbe(m) == m \in {"ffmpeg", "auto"}

\* variant: a cancelled run is reported as a clean exit
TopLevelCode_ZeroOnInterrupt(exc) == IF exc = "KeyboardInterrupt" THEN 0 ELSE 1

\* lines 300-305: both except clauses of the top level call sys.exit(1)
TopLevelCode(exc) == 1

\* variant: the counter is incremented for every attempt, failed or not
Counted_EveryAttempt(sc, res) == sc + 1

\* lines 92, 164, 179, 189: success_count += 1 after a successful call only
Counted(sc, res) == IF res = "ok" THEN sc + 1 ELSE sc

\* variant: the file is numbered after the files already in the directory
ChunkIndex_NextFree(k, existing) == Cardinality(existing) + 1

\* lines 76, 145: f"chunk_{i+1}{extension}", whatever output_dir holds
ChunkIndex(k, existing) == k + 1

\* before any run nothing has been recorded
NoPrev == [probes |-> <<>>, ffCalls |-> <<>>, attempts |-> <<>>,
           loaded |-> FALSE, files |-> {}, exitCode |-> None]

-----------------------------------------------------------------------------
Init ==
    /\ method \in Methods
    /\ chunk_duration \in 0..MaxChunk
    /\ inputExists \in BOOLEAN
    /\ mediaDuration \in 0..MaxDur
    /\ ffmpegAvail \in BOOLEAN
    /\ moviepyAvail \in BOOLEAN
    /\ editorAvail \in BOOLEAN
    /\ pc = "main"
    /\ duration = None
    /\ effMethod = NoMethod
    /\ exitCode = None
    /\ probes = <<>>
    /\ copied = FALSE
    /\ dirCreated = FALSE
    /\ files = {}
    /\ splitter = NoMethod
    /\ splitDuration = None
    /\ num_chunks = None
    /\ success_count = 0
    /\ i = 0
    /\ ffCalls = <<>>
    /\ attempt = 1
    /\ attempts = <<>>
    /\ openSub = 0
    /\ videoOpen = FALSE
    /\ videoCloses = 0
    /\ runNo = 1
    /\ prev = NoPrev
    /\ interrupted = FALSE

\* main() returns code, or an exception reaches the handler at lines
\* 296-305: either way sys.exit(code) ends the process.
Exit(code) == pc' = "done" /\ exitCode' = Some(code)

-----------------------------------------------------------------------------
(* main() *)

\* lines 242-248: input existence check, then the branch on args.method
CheckInput ==
    /\ pc = "main"
    /\ IF ~inputExists
         THEN Exit(1)
         ELSE /\ pc' = IF NeedsProbe(method) THEN "probe" ELSE "resolve"
              /\ UNCHANGED exitCode
    /\ UNCHANGED <<env, hist, dirCreated, files, mainVars, splitVars, ffVars, mpVars>>

\* lines 249-250: the probe and the short-circuit test
MainProbe ==
    /\ pc = "probe"
    /\ \E run \in ProbeRuns(mediaDuration) :
         /\ duration' = get_video_duration_ffmpeg(run)
         /\ probes' = Append(probes, [by |-> "main", run |-> run, result |-> duration'])
         /\ pc' = IF ShortCircuit(duration', chunk_duration) THEN "copy" ELSE "resolve"
    /\ UNCHANGED <<env, hist, exitCode, dirCreated, files, effMethod, copied,
                   splitVars, ffVars, mpVars>>

\* lines 251-261: copy the source to chunk_1<ext>, return 0
ShortCircuitCopy ==
    /\ pc = "copy"
    /\ dirCreated' = TRUE
    /\ files' = files \cup {1}
    /\ copied' = TRUE
    /\ Exit(0)
    /\ UNCHANGED <<env, hist, duration, effMethod, probes, splitVars, ffVars, mpVars>>

\* lines 263-279: method resolution
ResolveMethod ==
    /\ pc = "resolve"
    /\ effMethod' = IF method = "auto" THEN AutoSelect(ffmpegAvail, moviepyAvail)
                                       ELSE method
    /\ IF effMethod' = NoMethod
         THEN Exit(1)
         ELSE pc' = "dispatch" /\ UNCHANGED exitCode
    /\ UNCHANGED <<env, hist, dirCreated, files, duration, probes, copied,
                   splitVars, ffVars, mpVars>>

\* lines 281-292: availability re-check and call of the splitter
Dispatch ==
    /\ pc = "dispatch"
    /\ IF ~BackendAvailable(effMethod, ffmpegAvail, moviepyAvail)
         THEN Exit(1) /\ UNCHANGED splitter
         ELSE /\ pc' = IF effMethod = "ffmpeg" THEN "ff_probe" ELSE "mp_import"
              /\ splitter' = effMethod
              /\ UNCHANGED exitCode
    /\ UNCHANGED <<env, hist, dirCreated, files, mainVars, splitDuration, num_chunks,
                   success_count, i, ffVars, mpVars>>

-----------------------------------------------------------------------------
(* split_video_ffmpeg *)

\* lines 50-54: the splitter's own probe; None -> return False
FfProbe ==
    /\ pc = "ff_probe"
    /\ \E run \in ProbeRuns(mediaDuration) :
         /\ splitDuration' = get_video_duration_ffmpeg(run)
         /\ probes' = Append(probes, [by |-> "split", run |-> run, result |-> splitDuration'])
         /\ IF splitDuration' = None
              THEN Exit(ExitOf(FALSE))
              ELSE pc' = "ff_plan" /\ UNCHANGED exitCode
    /\ UNCHANGED <<env, hist, dirCreated, files, duration, effMethod, copied, splitter,
                   num_chunks, success_count, i, ffVars, mpVars>>

\* lines 58-73: chunk count, output directory, counter.  A zero
\* chunk_duration raises ZeroDivisionError at line 59, which only the
\* top-level handler catches.
FfPlan ==
    /\ pc = "ff_plan"
    /\ IF chunk_duration = 0
         THEN /\ Exit(TopLevelCode("ZeroDivisionError"))
              /\ UNCHANGED <<num_chunks, dirCreated, success_count, i>>
         ELSE /\ num_chunks' = Some(NumChunks(splitDuration[1], chunk_duration))
              /\ dirCreated' = TRUE
              /\ success_count' = 0
              /\ i' = 0
              /\ pc' = "ff_loop"
              /\ UNCHANGED exitCode
    /\ UNCHANGED <<env, hist, files, mainVars, splitter, splitDuration, ffVars, mpVars>>

\* lines 74-97: one iteration = one ffmpeg invocation; it exits 0, exits
\* non-zero, or subprocess.run raises
FfChunk ==
    /\ pc = "ff_loop"
    /\ i < num_chunks[1]
    /\ \E rc \in {"ok", "nonzero", "raise"} :
         /\ ffCalls' = Append(ffCalls,
                [idx |-> i + 1,
                 ss  |-> StartTime(i, chunk_duration),
                 t   |-> FfmpegWindow(i, chunk_duration, splitDuration[1]),
                 rc  |-> rc])
         /\ success_count' = Counted(success_count, rc)
         /\ files' = IF rc = "ok" THEN files \cup {ChunkIndex(i, files)} ELSE files
    /\ i' = i + 1
    /\ UNCHANGED <<env, hist, pc, exitCode, dirCreated, mainVars, splitter, splitDuration,
                   num_chunks, mpVars>>

\* lines 99-100 and 294
FfReport ==
    /\ pc = "ff_loop"
    /\ i >= num_chunks[1]
    /\ Exit(ExitOf(SplitSuccess(success_count, num_chunks[1])))
    /\ UNCHANGED <<env, hist, dirCreated, files, mainVars, splitVars, ffVars, mpVars>>

-----------------------------------------------------------------------------
(* split_video_moviepy *)

\* the keyword arguments of write_videofile on each rung of the ladder
LadderArgs(rung) ==
    IF rung = 1 THEN [codec |-> "libx264", audio_codec |-> "aac"]
    ELSE IF rung = 2 THEN [codec |-> "libx264", audio_codec |-> "default"]
    ELSE [codec |-> "default", audio_codec |-> "default"]

\* variant: only one retry, the ladder has two rungs
LastRung_Two(rung) == rung >= 2

\* the except clauses nest three deep: after the third raise the chunk is given up
LastRung(rung) == rung >= 3

\* subclip = video.subclip(...) opens a handle; subclip.close() comes after
\* write_videofile inside the same try block, so a raising write skips it
SubclipsOpenAfter(open, res) == IF res = "ok" THEN open ELSE open + 1

\* lines 104-111: the import inside the splitter; ImportError -> return False
MpImport ==
    /\ pc = "mp_import"
    /\ IF ~editorAvail
         THEN Exit(ExitOf(FALSE))
         ELSE pc' = "mp_load" /\ UNCHANGED exitCode
    /\ UNCHANGED <<env, hist, dirCreated, files, mainVars, splitVars, ffVars, mpVars>>

\* lines 113-126: VideoFileClip(input_path) loads or raises -> return False
MpLoad ==
    /\ pc = "mp_load"
    /\ \E loaded \in BOOLEAN :
         IF loaded
           THEN /\ videoOpen' = TRUE
                /\ splitDuration' = Some(mediaDuration)
                /\ pc' = "mp_plan"
                /\ UNCHANGED exitCode
           ELSE /\ Exit(ExitOf(FALSE))
                /\ UNCHANGED <<videoOpen, splitDuration>>
    /\ UNCHANGED <<env, hist, dirCreated, files, mainVars, splitter, num_chunks,
                   success_count, i, ffVars, attempt, attempts, openSub, videoCloses>>

\* lines 128-140; a zero chunk_duration raises ZeroDivisionError at line
\* 129 with the video handle still open
MpPlan ==
    /\ pc = "mp_plan"
    /\ IF chunk_duration = 0
         THEN /\ Exit(TopLevelCode("ZeroDivisionError"))
              /\ UNCHANGED <<num_chunks, dirCreated, success_count, i>>
         ELSE /\ num_chunks' = Some(NumChunks(splitDuration[1], chunk_duration))
              /\ dirCreated' = TRUE
              /\ success_count' = 0
              /\ i' = 0
              /\ pc' = "mp_loop"
              /\ UNCHANGED exitCode
    /\ UNCHANGED <<env, hist, files, mainVars, splitter, splitDuration, ffVars, mpVars>>

\* lines 141-192: one rung of the ladder for chunk i+1: subclip, write,
\* and on success close and count; on a raise the next rung, or after the
\* last rung the next chunk
MpAttempt ==
    /\ pc = "mp_loop"
    /\ i < num_chunks[1]
    /\ \E res \in {"ok", "raise"} :
         /\ attempts' = Append(attempts,
                [idx   |-> i + 1,
                 rung  |-> attempt,
                 args  |-> LadderArgs(attempt),
                 start |-> StartTime(i, chunk_duration),
                 end   |-> EndTime(i, chunk_duration, splitDuration[1]),
                 res   |-> res])
         /\ openSub' = SubclipsOpenAfter(openSub, res)
         /\ success_count' = Counted(success_count, res)
         /\ files' = IF res = "ok" THEN files \cup {ChunkIndex(i, files)} ELSE files
         /\ IF res = "ok" \/ LastRung(attempt)
              THEN i' = i + 1 /\ attempt' = 1
              ELSE i' = i /\ attempt' = attempt + 1
    /\ UNCHANGED <<env, hist, pc, exitCode, dirCreated, mainVars, splitter, splitDuration,
                   num_chunks, ffVars, videoOpen, videoCloses>>

\* lines 194-198 and 294: video.close(), the verdict, the exit code
MpFinish ==
    /\ pc = "mp_loop"
    /\ i >= num_chunks[1]
    /\ videoOpen' = FALSE
    /\ videoCloses' = videoCloses + 1
    /\ Exit(ExitOf(SplitSuccess(success_count, num_chunks[1])))
    /\ UNCHANGED <<env, hist, dirCreated, files, mainVars, splitVars, ffVars,
                   attempt, attempts, openSub>>

-----------------------------------------------------------------------------
Next ==
    \/ CheckInput
    \/ MainProbe
    \/ ShortCircuitCopy
    \/ ResolveMethod
    \/ Dispatch
    \/ FfProbe
    \/ FfPlan
    \/ FfChunk
    \/ FfReport
    \/ MpImport
    \/ MpLoad
    \/ MpPlan
    \/ MpAttempt
    \/ MpFinish

Spec == Init /\ [][Next]_vars

-----------------------------------------------------------------------------
(* The program run a second time on what the first run left on disk *)

\* The process is started again with the same arguments in the same
\* environment: every local starts afresh (lines 221-243), the output
\* directory and its files stay as the first run left them.
Rerun ==
    /\ pc = "done"
    /\ runNo = 1
    /\ ~interrupted
    /\ runNo' = 2
    /\ prev' = [probes |-> probes, ffCalls |-> ffCalls, attempts |-> attempts,
                loaded |-> videoCloses > 0 \/ videoOpen,
                files |-> files, exitCode |-> exitCode]
    /\ pc' = "main"
    /\ duration' = None
    /\ effMethod' = NoMethod
    /\ exitCode' = None
    /\ probes' = <<>>
    /\ copied' = FALSE
    /\ splitter' = NoMethod
    /\ splitDuration' = None
    /\ num_chunks' = None
    /\ success_count' = 0
    /\ i' = 0
    /\ ffCalls' = <<>>
    /\ attempt' = 1
    /\ attempts' = <<>>
    /\ openSub' = 0
    /\ videoOpen' = FALSE
    /\ videoCloses' = 0
    /\ UNCHANGED <<env, interrupted, dirCreated, files>>

IsPrefix(log, old) == Len(log) <= Len(old) /\ log = SubSeq(old, 1, Len(log))

\* in the second run every external call does what it did in the first
Replay ==
    runNo = 2 =>
        /\ IsPrefix(probes, prev.probes)
        /\ IsPrefix(ffCalls, prev.ffCalls)
        /\ IsPrefix(attempts, prev.attempts)
        /\ (videoOpen \/ videoCloses > 0) => prev.loaded
        /\ (splitter = "moviepy" /\ editorAvail /\ pc = "done" /\ splitDuration = None)
             => ~prev.loaded

NextTwice ==
    \/ CheckInput /\ Replay'
    \/ MainProbe /\ Replay'
    \/ ShortCircuitCopy /\ Replay'
    \/ ResolveMethod /\ Replay'
    \/ Dispatch /\ Replay'
    \/ FfProbe /\ Replay'
    \/ FfPlan /\ Replay'
    \/ FfChunk /\ Replay'
    \/ FfReport /\ Replay'
    \/ MpImport /\ Replay'
    \/ MpLoad /\ Replay'
    \/ MpPlan /\ Replay'
    \/ MpAttempt /\ Replay'
    \/ MpFinish /\ Replay'
    \/ Rerun

SpecTwice == Init /\ [][NextTwice]_vars

-----------------------------------------------------------------------------
(* A run the user may cancel *)

\* Ctrl-C while main() is running, at whatever statement or external call
\* it is in.  KeyboardInterrupt is no Exception, so the handlers at lines
\* 42, 96, 116, 167, 181 and 191 let it pass; line 300 catches it and line
\* 302 exits.  Nothing is removed from the output directory.
Interrupt ==
    /\ pc # "done"
    /\ interrupted' = TRUE
    /\ Exit(TopLevelCode("KeyboardInterrupt"))
    /\ UNCHANGED <<env, runNo, prev, dirCreated, files, mainVars, splitVars,
                   ffVars, mpVars>>

NextInterrupt ==
    \/ Next
    \/ Interrupt

SpecInterrupt == Init /\ [][NextInterrupt]_vars

-----------------------------------------------------------------------------
(* Vocabulary of the properties *)

Range(seq) == { seq[k] : k \in 1..Len(seq) }

Exited(code) == pc = "done" /\ exitCode = Some(code)

\* the splitter's loop has run to its end and the splitter has returned
FfFinished == splitter = "ffmpeg" /\ pc = "done" /\ num_chunks # None
MpFinished == splitter = "moviepy" /\ pc = "done" /\ num_chunks # None

\* the (start, end) pairs the re-encode splitter used for chunk k
MpSpans(k) == { <<a.start, a.end>> : a \in { b \in Range(attempts) : b.idx = k } }
MpSpan(k) == CHOOSE r \in MpSpans(k) : TRUE
MpIdxs == { a.idx : a \in Range(attempts) }

\* n is the ceiling of d / l, stated without the division
IsCeil(n, d, l) == n * l >= d /\ (n - 1) * l < d

-----------------------------------------------------------------------------
\* C1: for D > 0 and L > 0 the ranges the re-encode splitter plans are
\* start = (k-1)*L, end = min(k*L, D) for k = 1..ceil(D/L): non-empty, no
\* longer than L, starting at 0, each ending where the next starts, the
\* last ending at D, and exactly ceil(D/L) of them; the stream-copy
\* splitter plans the same number of chunks at the same starts.
C1_ChunkRanges ==
    LET L == chunk_duration IN
    /\ (MpFinished /\ splitDuration[1] > 0) =>
         LET D == splitDuration[1]
             n == Cardinality(MpIdxs)
         IN /\ MpIdxs = 1..n
            /\ IsCeil(n, D, L)
            /\ \A k \in 1..n :
                 /\ Cardinality(MpSpans(k)) = 1
                 /\ MpSpan(k)[1] = (k - 1) * L
                 /\ MpSpan(k)[2] = (IF k * L <= D THEN k * L ELSE D)
                 /\ MpSpan(k)[1] < MpSpan(k)[2]
                 /\ MpSpan(k)[2] - MpSpan(k)[1] <= L
            /\ MpSpan(1)[1] = 0
            /\ MpSpan(n)[2] = D
            /\ \A k \in 1..(n - 1) : MpSpan(k)[2] = MpSpan(k + 1)[1]
    /\ (FfFinished /\ splitDuration[1] > 0) =>
         LET D == splitDuration[1]
             n == Len(ffCalls)
         IN /\ IsCeil(n, D, L)
            /\ \A k \in 1..n : ffCalls[k].idx = k /\ ffCalls[k].ss = (k - 1) * L
            /\ \A k \in 1..n : ffCalls[k].ss < D

\* a re-encode run that planned three or more chunks, the last one clipped
C1_Witness ==
    /\ MpFinished
    /\ num_chunks[1] >= 3
    /\ splitDuration[1] < num_chunks[1] * chunk_duration
    /\ MpIdxs = 1..num_chunks[1]

\* C2 as claimed: every stream-copy invocation of chunk k gets start
\* (k-1)*L and a duration window of end_k - start_k with end_k = min(k*L, D).
C2_WindowIsClipped ==
    \A k \in 1..Len(ffCalls) :
        /\ ffCalls[k].ss = (k - 1) * chunk_duration
        /\ ffCalls[k].t = Min(k * chunk_duration, splitDuration[1]) - ffCalls[k].ss

\* C2 as amended: every stream-copy invocation of chunk k gets start
\* (k-1)*L and the full chunk length L as its duration window, the final
\* chunk included; when D is not a multiple of L the final window is longer
\* than the remaining source D - start.
C2_WindowIsChunkLength ==
    /\ \A k \in 1..Len(ffCalls) :
        /\ ffCalls[k].idx = k
        /\ ffCalls[k].ss = (k - 1) * chunk_duration
        /\ ffCalls[k].t = chunk_duration
    /\ (FfFinished /\ Len(ffCalls) > 0
          /\ splitDuration[1] < Len(ffCalls) * chunk_duration) =>
         LET last == ffCalls[Len(ffCalls)]
         IN last.t > splitDuration[1] - last.ss

\* a stream-copy run of two or more chunks whose duration is no multiple of L
C2_Witness ==
    /\ FfFinished
    /\ Len(ffCalls) >= 2
    /\ splitDuration[1] < Len(ffCalls) * chunk_duration
    /\ ffCalls[Len(ffCalls)].rc = "ok"

-----------------------------------------------------------------------------
\* main()'s probe (line 249) has returned
MainProbed == Len(probes) >= 1 /\ probes[1].by = "main"

AfterResolve == pc \in {"dispatch", "ff_probe", "ff_plan", "ff_loop",
                        "mp_import", "mp_load", "mp_plan", "mp_loop"}

\* C3 as claimed: with method ffmpeg or auto and an existing input, every
\* probed duration D >= 0 with D <= L leads to the copy to chunk_1 and exit
\* code 0, and no splitter and no per-chunk call runs.
C3_ShortCircuitForEveryDuration ==
    (/\ method \in {"ffmpeg", "auto"}
     /\ inputExists
     /\ MainProbed
     /\ probes[1].result # None
     /\ chunk_duration > 0
     /\ probes[1].result[1] >= 0
     /\ probes[1].result[1] <= chunk_duration)
    => /\ pc \in {"copy", "done"}
       /\ splitter = NoMethod
       /\ ffCalls = <<>>
       /\ attempts = <<>>
       /\ pc = "done" => (copied /\ 1 \in files /\ exitCode = Some(0))

\* C4 as claimed: with method auto and ffmpeg unavailable, no fast-path
\* process (probe or split) runs, resolution selects moviepy, and with
\* both backends unavailable the run exits 1 having written no file.
C4_NoFastPathCallAtAll ==
    (method = "auto" /\ ~ffmpegAvail)
    => /\ \A p \in Range(probes) : ~p.run.found
       /\ ffCalls = <<>>
       /\ (AfterResolve /\ moviepyAvail) => effMethod = "moviepy"
       /\ ~moviepyAvail => (files = {} /\ (pc = "done" => exitCode = Some(1)))

\* C4 as amended: with method auto and ffmpeg unavailable, the duration
\* probe is still invoked once before resolution (and only there), no
\* ffmpeg split invocation is made, and resolution, reached whenever the
\* short-circuit copy is not taken, selects moviepy; with both backends
\* unavailable the run exits 1 with nothing written, unless the probe
\* returned 0 < D <= L, when chunk_1 is copied and the run exits 0.
C4_AutoFallsBackToLibrary ==
    (method = "auto" /\ ~ffmpegAvail)
    => /\ ffCalls = <<>>
       /\ splitter # "ffmpeg"
       /\ Len(probes) <= 1
       /\ \A p \in Range(probes) : p.by = "main"
       /\ (inputExists /\ pc \notin {"main", "probe"}) => Len(probes) = 1
       /\ AfterResolve => (moviepyAvail /\ effMethod = "moviepy")
       /\ (pc = "done" /\ inputExists /\ ~copied /\ moviepyAvail)
            => (effMethod = "moviepy" /\ splitter = "moviepy")
       /\ copied => (ShortCircuit(duration, chunk_duration) /\ duration[1] > 0
                     /\ files = {1} /\ exitCode = Some(0))
       /\ (~moviepyAvail /\ ~copied)
            => (files = {} /\ ~dirCreated /\ (pc = "done" => exitCode = Some(1)))

\* auto with ffmpeg unavailable: ffprobe ran all the same, and the
\* re-encode splitter was selected and ran to its end
C4_Witness ==
    /\ method = "auto"
    /\ ~ffmpegAvail
    /\ MainProbed
    /\ probes[1].run.found
    /\ MpFinished
    /\ effMethod = "moviepy"

\* C5 as claimed: an explicit method whose backend is unavailable ends
\* with exit code 1, never 0, and writes nothing, for every probe outcome.
C5_ExplicitUnavailableAlwaysFails ==
    (\/ method = "ffmpeg" /\ ~ffmpegAvail
     \/ method = "moviepy" /\ ~moviepyAvail)
    => /\ files = {}
       /\ ~dirCreated
       /\ exitCode # Some(0)
       /\ pc = "done" => exitCode = Some(1)

\* C5 as amended: an explicit method whose backend is unavailable never
\* enters a splitter and makes no per-chunk call; the run exits 1 with
\* nothing written, except that with method ffmpeg a probe result
\* 0 < D <= L takes the short-circuit copy first (chunk_1 written, exit 0),
\* because the probe and the copy precede the availability check.
C5_ExplicitUnavailableFailsUnlessCopied ==
    (\/ method = "ffmpeg" /\ ~ffmpegAvail
     \/ method = "moviepy" /\ ~moviepyAvail)
    => /\ splitter = NoMethod
       /\ ffCalls = <<>>
       /\ attempts = <<>>
       /\ ~AfterResolve \/ pc = "dispatch"
       /\ method = "moviepy" => (~copied /\ probes = <<>>)
       /\ copied => (/\ method = "ffmpeg"
                     /\ duration # None /\ duration[1] > 0
                     /\ duration[1] <= chunk_duration
                     /\ files = {1} /\ exitCode = Some(0))
       /\ ~copied => (files = {} /\ ~dirCreated /\ exitCode # Some(0))
       /\ (pc = "done" /\ ~copied) => exitCode = Some(1)

\* --method ffmpeg without ffmpeg, the probe reporting a source longer than
\* one chunk: the run got as far as the dispatch and failed there
C5_Witness ==
    /\ method = "ffmpeg"
    /\ ~ffmpegAvail
    /\ inputExists
    /\ duration # None
    /\ effMethod = "ffmpeg"
    /\ Exited(1)

-----------------------------------------------------------------------------
\* the chunks whose stream-copy invocation failed (non-zero exit or raise)
FfFailed == { k \in 1..Len(ffCalls) : ffCalls[k].rc # "ok" }

\* C6: in the stream-copy splitter every planned chunk 1..N is attempted
\* exactly once, in increasing order, whatever fails; the success count is
\* N - |F| for the set F of failed chunks, the files written are the chunks
\* outside F, the splitter succeeds iff F is empty, and the exit code is 1
\* whenever F is non-empty.
C6_FailureIsolation ==
    (splitter = "ffmpeg" /\ num_chunks # None)
    => LET n == num_chunks[1] IN
       /\ \A k \in 1..Len(ffCalls) : ffCalls[k].idx = k
       /\ Len(ffCalls) = i
       /\ i <= n
       /\ success_count = Len(ffCalls) - Cardinality(FfFailed)
       /\ files = (1..Len(ffCalls)) \ FfFailed
       /\ pc = "done" =>
            /\ Len(ffCalls) = n
            /\ success_count = n - Cardinality(FfFailed)
            /\ (exitCode = Some(0)) <=> (FfFailed = {})
            /\ FfFailed # {} => exitCode = Some(1)

\* three or more chunks, only the first invocation failed, the others ran
\* and succeeded: succeeded = N-1, attempted = N, exit code 1
C6_Witness ==
    /\ FfFinished
    /\ num_chunks[1] >= 3
    /\ Len(ffCalls) = num_chunks[1]
    /\ FfFailed = {1}
    /\ success_count = num_chunks[1] - 1
    /\ Exited(1)

-----------------------------------------------------------------------------
\* the positions of the attempts log that belong to chunk k
MpTries(k) == { q \in 1..Len(attempts) : attempts[q].idx = k }
MpOk(k) == { q \in MpTries(k) : attempts[q].res = "ok" }

\* C7: for each chunk the attempts run rung 1 (video + audio codec), rung
\* 2 (video codec only), rung 3 (no codec argument), in that order, on the
\* same sub-range, and stop at the first success; the chunk adds 1 to the
\* success count iff one attempt succeeded, which is then its only
\* successful write, and adds 0 only after three raises; every chunk is
\* reached whatever the earlier chunks did.
C7_FallbackLadder ==
    (splitter = "moviepy" /\ num_chunks # None)
    => LET n == num_chunks[1] IN
       /\ \A q \in 1..Len(attempts) :
            LET a == attempts[q] IN
            /\ a.rung \in 1..3
            /\ a.rung = 1 => a.args = [codec |-> "libx264", audio_codec |-> "aac"]
            /\ a.rung = 2 => a.args = [codec |-> "libx264", audio_codec |-> "default"]
            /\ a.rung = 3 => a.args = [codec |-> "default", audio_codec |-> "default"]
            /\ IF q = 1
                 THEN a.idx = 1 /\ a.rung = 1
                 ELSE LET b == attempts[q - 1] IN
                      \/ /\ a.idx = b.idx
                         /\ b.res = "raise"
                         /\ a.rung = b.rung + 1
                         /\ a.start = b.start /\ a.end = b.end
                      \/ /\ a.idx = b.idx + 1
                         /\ a.rung = 1
                         /\ b.res = "ok" \/ b.rung = 3
       /\ \A k \in 1..n :
            /\ Cardinality(MpOk(k)) <= 1
            /\ k \in files <=> MpOk(k) # {}
            /\ (k <= i /\ MpOk(k) = {}) =>
                 (Cardinality(MpTries(k)) = 3
                    /\ \A q \in MpTries(k) : attempts[q].res = "raise")
            /\ k <= i => MpTries(k) # {}
       /\ success_count = Cardinality({ k \in 1..n : MpOk(k) # {} })
       /\ i <= n
       /\ pc = "done" => i = n

\* chunk 1 failed on rung 1 and succeeded on rung 2 (one file), chunk 2
\* raised on all three rungs, and chunk 3 was still processed
C7_Witness ==
    /\ MpFinished
    /\ num_chunks[1] >= 3
    /\ Cardinality(MpTries(1)) = 2
    /\ MpOk(1) # {}
    /\ Cardinality(MpTries(2)) = 3
    /\ MpOk(2) = {}
    /\ MpOk(3) # {}
    /\ success_count = 2

\* C8 as claimed: every sub-range handle an attempt creates is closed
\* before the next attempt or chunk starts, whether its write succeeded or
\* raised, so no sub-range handle is ever left open between attempts; and
\* the source handle is closed exactly once, after the last chunk.
C8_EveryHandleClosed ==
    /\ openSub = 0
    /\ videoCloses <= 1
    /\ videoCloses = 1 => (num_chunks # None /\ i = num_chunks[1])
    /\ MpFinished => (videoCloses = 1 /\ ~videoOpen)

-----------------------------------------------------------------------------
\* the availability check that guards the requested method reports nothing usable
NoBackend ==
    \/ method = "auto" /\ ~ffmpegAvail /\ ~moviepyAvail
    \/ method = "ffmpeg" /\ ~ffmpegAvail
    \/ method = "moviepy" /\ ~moviepyAvail

\* a splitter ran its loop to the end
SplitterRan == splitter # NoMethod /\ num_chunks # None

ExitCodeRule ==
    /\ exitCode \in {None, Some(0), Some(1)}
    /\ (pc = "done") <=> (exitCode # None)
    /\ pc = "done" =>
         /\ (exitCode = Some(0))
              <=> (copied \/ (SplitterRan /\ success_count = num_chunks[1]))
         /\ ~inputExists => exitCode = Some(1)
         /\ (SplitterRan /\ \E k \in 1..num_chunks[1] : k \notin files)
              => exitCode = Some(1)

\* C9 as claimed: the exit code is 0 or 1, and 0 iff the short-circuit
\* copy completed or the splitter's success count equals its planned
\* count; a missing input, no available backend, and a chunk left failed
\* all give 1.
C9_NoBackendAlwaysOne ==
    /\ ExitCodeRule
    /\ (pc = "done" /\ NoBackend) => exitCode = Some(1)

\* C9 as amended: the exit code is 0 or 1, and 0 iff the short-circuit
\* copy completed or the splitter's success count equals its planned
\* count; a missing input and a chunk left failed give 1, and so does an
\* unavailable backend unless the short-circuit copy, which precedes the
\* availability checks, was taken.
C9_ExitCodes ==
    /\ ExitCodeRule
    /\ (pc = "done" /\ NoBackend /\ ~copied) => exitCode = Some(1)

\* a stream-copy run of two or more chunks that all succeeded: exit code 0
C9_Witness ==
    /\ FfFinished
    /\ num_chunks[1] >= 2
    /\ success_count = num_chunks[1]
    /\ Exited(0)

-----------------------------------------------------------------------------
\* C10: the prober returns None exactly when ffprobe is missing, exits
\* non-zero or prints non-numeric text, and never ends the run itself; in
\* main() a None only skips the short-circuit copy and method resolution
\* follows; in the stream-copy splitter a None makes the splitter fail
\* with no ffmpeg invocation, no directory and no file.
C10_ProbeFailureIsAValue ==
    /\ \A p \in Range(probes) :
         (p.result = None)
           <=> (~p.run.found \/ p.run.returncode # 0 \/ ~p.run.numeric)
    /\ (MainProbed /\ probes[1].result = None) =>
         /\ ~copied
         /\ pc = "resolve" \/ AfterResolve \/ pc = "done"
         /\ pc = "done" =>
              (effMethod = IF method = "auto"
                             THEN (IF ffmpegAvail THEN "ffmpeg"
                                   ELSE IF moviepyAvail THEN "moviepy" ELSE NoMethod)
                             ELSE method)
         /\ (pc = "done" /\ ffmpegAvail /\ method = "ffmpeg") => splitter = "ffmpeg"
    /\ (\E p \in Range(probes) : p.by = "split" /\ p.result = None) =>
         /\ Exited(1)
         /\ ffCalls = <<>>
         /\ files = {}
         /\ ~dirCreated
         /\ num_chunks = None

\* ffprobe printed something float() rejects, both in main() and in the
\* splitter: the run went through resolution into the splitter and failed there
C10_Witness ==
    /\ Len(probes) = 2
    /\ probes[1].by = "main" /\ probes[1].result = None
    /\ probes[1].run.found /\ probes[1].run.returncode = 0
    /\ probes[2].by = "split" /\ probes[2].result = None
    /\ splitter = "ffmpeg"
    /\ Exited(1)

-----------------------------------------------------------------------------
\* C11: when the same split is run again with the same input, method,
\* chunk length and output directory, and every external call does what it
\* did the first time, the second run makes the same calls, ends with the
\* same exit code, and at no point adds a name to or removes a name from
\* the set of chunk files the first run left: same names, same count.
C11_Idempotent ==
    runNo = 2 =>
        /\ files = prev.files
        /\ Cardinality(files) = Cardinality(prev.files)
        /\ pc = "done" =>
             /\ probes = prev.probes
             /\ ffCalls = prev.ffCalls
             /\ attempts = prev.attempts
             /\ exitCode = prev.exitCode

\* a second stream-copy run over three or more chunks, one of which failed
\* both times, has finished on top of the files of the first
C11_Witness ==
    /\ runNo = 2
    /\ FfFinished
    /\ num_chunks[1] >= 3
    /\ Cardinality(FfFailed) = 1
    /\ Cardinality(files) = num_chunks[1] - 1
    /\ prev.ffCalls = ffCalls

-----------------------------------------------------------------------------
\* line 59 / 129 divided by a zero chunk length
ZeroDivision == splitter # NoMethod /\ splitDuration # None /\ chunk_duration = 0

\* an error was raised inside the probe, or inside a chunk's external call
LocalError ==
    \/ \E p \in Range(probes) : ~p.run.found
    \/ \E c \in Range(ffCalls) : c.rc = "raise"
    \/ \E a \in Range(attempts) : a.res = "raise"

\* C12 as claimed: an interrupt or an unexpected error delivered at any
\* point of the run (in the probe, in the copy, in a chunk's external call,
\* or the division by a zero chunk length) ends the process with exit code 1.
C12_EveryErrorExitsOne ==
    (pc = "done" /\ mediaDuration > 0 /\ (interrupted \/ ZeroDivision \/ LocalError))
    => exitCode = Some(1)

C12_State ==
    /\ interrupted => Exited(1)
    /\ (ZeroDivision /\ pc = "done") => (exitCode = Some(1) /\ num_chunks = None)
    /\ \A p \in Range(probes) : ~p.run.found => p.result = None
    /\ (MainProbed /\ ~probes[1].run.found /\ ~interrupted /\ pc = "done")
         => (effMethod # NoMethod \/ (method = "auto" /\ ~ffmpegAvail /\ ~moviepyAvail))
    /\ (FfFinished /\ ~interrupted /\ \E c \in Range(ffCalls) : c.rc = "raise")
         => (Len(ffCalls) = num_chunks[1] /\ exitCode = Some(1))
    /\ (MpFinished /\ ~interrupted)
         => (exitCode = Some(1)
               <=> \E k \in 1..num_chunks[1] :
                     Cardinality({ q \in MpTries(k) : attempts[q].res = "raise" }) = 3)

C12_Step ==
    /\ files \subseteq files'
    /\ dirCreated => dirCreated'
    /\ (interrupted' /\ ~interrupted)
         => (pc' = "done" /\ exitCode' = Some(1) /\ files' = files)

\* C12 as amended: an interrupt delivered at any point of the run, and an
\* error no inner handler catches (the division by a zero chunk length),
\* reaches the top level and the process ends with exit code 1; exit code 0
\* is never produced by an interrupted run; no step removes a file already
\* written.  An error raised inside the probe is caught there and becomes
\* 'no duration', after which the run goes on and may end with exit code 0;
\* an error raised by a chunk's external call is caught in the loop, which
\* goes on: the stream-copy chunk counts as failed (exit code 1), the
\* re-encode chunk only if all three rungs raise.
C12_TopLevelHandler == []C12_State /\ [][C12_Step]_vars

\* the run was cancelled during the call for a later chunk, after an
\* earlier chunk's file had been written; the file is still there
C12_Witness ==
    /\ interrupted
    /\ Exited(1)
    /\ splitter = "ffmpeg"
    /\ num_chunks # None
    /\ i >= 1
    /\ i < num_chunks[1]
    /\ files # {}

-----------------------------------------------------------------------------
C13_State ==
    /\ success_count >= 0
    /\ i >= 0
    /\ num_chunks = None => (success_count = 0 /\ i = 0)
    /\ num_chunks # None => (success_count <= i /\ i <= num_chunks[1])
    /\ splitter # NoMethod => success_count = Cardinality(files)

C13_Step ==
    /\ success_count' = success_count \/ success_count' = success_count + 1
    /\ success_count' = success_count + 1 => i' = i + 1
    /\ i' = i \/ i' = i + 1
    /\ (pc \in {"ff_loop", "mp_loop"} /\ pc' = pc)
         => UNCHANGED <<env, num_chunks, splitDuration, splitter, mainVars,
                        dirCreated, videoOpen, videoCloses>>

\* C13: in both splitters the success counter starts at 0, changes only
\* by +1 and only together with the move to the next chunk, so no chunk
\* adds more than 1, and always 0 <= success_count <= chunks processed <=
\* planned chunk count; a chunk's iteration changes, of the program's own
\* state, nothing but the loop position and this counter.
C13_CounterMonotone == []C13_State /\ [][C13_Step]_vars

\* a re-encode run of three or more chunks, some written and some given up
C13_Witness ==
    /\ MpFinished
    /\ num_chunks[1] >= 3
    /\ success_count > 0
    /\ success_count < num_chunks[1]
    /\ i = num_chunks[1]

-----------------------------------------------------------------------------
\* C14: with --method moviepy main() never calls the duration probe or
\* any other ffprobe/ffmpeg command and never takes the short-circuit
\* copy; a source with 0 < D <= L is planned by the re-encode splitter as
\* exactly one chunk, chunk_1 over [0, D].
C14_LibraryMethodNeverProbes ==
    method = "moviepy" =>
        /\ probes = <<>>
        /\ ffCalls = <<>>
        /\ duration = None
        /\ ~copied
        /\ pc \notin {"probe", "copy", "ff_probe", "ff_plan", "ff_loop"}
        /\ splitter \in {NoMethod, "moviepy"}
        /\ (num_chunks # None /\ 0 < mediaDuration /\ mediaDuration <= chunk_duration)
             => /\ num_chunks = Some(1)
                /\ files \subseteq {1}
                /\ \A a \in Range(attempts) :
                     a.idx = 1 /\ a.start = 0 /\ a.end = mediaDuration
                /\ pc = "done" => (attempts # <<>> /\ (exitCode = Some(0) <=> files = {1}))

\* --method moviepy on a source shorter than one chunk: the splitter ran
\* and wrote chunk_1, no probe, no copy
C14_Witness ==
    /\ method = "moviepy"
    /\ MpFinished
    /\ 0 < mediaDuration
    /\ mediaDuration < chunk_duration
    /\ files = {1}
    /\ Exited(0)

\* C15 as claimed: a run that ends with exit code 0 has written at least
\* one file: chunk_1 on the short-circuit path, chunk_1..chunk_N with
\* N >= 1 on a splitter path, for every duration D >= 0.
C15_ExitZeroWroteAFile ==
    Exited(0) =>
        /\ files # {}
        /\ copied => 1 \in files
        /\ SplitterRan => (num_chunks[1] >= 1 /\ files = 1..num_chunks[1])

====
